---- MODULE Spec2Model ----
(***************************************************************************)
(* Model of gcode_postprocess.py: the line loop of main() (the segmenter), *)
(* the classifier predicates, compensate_extrude / compensate_travel and   *)
(* cmd_to_file.                                                            *)
(*                                                                         *)
(* Numbers.  Every numeric field value (X, Y, Z, E, F, S ...) is held in   *)
(* fixed point as an integer number of thousandths, the precision          *)
(* cmd_to_file prints ('{:.3f}').  So the line "G1 X4.000 Y0.000 E0.003"   *)
(* carries X = 4000, Y = 0, E = 3.  math.sqrt is the integer square root   *)
(* (floor) and a real quotient is a floor division, both at that           *)
(* precision.  Floating point rounding below 0.001 is not modelled.        *)
(*                                                                         *)
(* A python dict is a sequence of <<key, value>> pairs with distinct keys, *)
(* in insertion order.  The 'command' entry of a command dict is kept in   *)
(* the record field "command" (NoCommand when the dict has no such key),   *)
(* the remaining entries in "fields".  A string that the code indexes      *)
(* (the first token of a line) is a tuple of characters.                   *)
(*                                                                         *)
(* An uncaught python exception ends the run: pc = "failed" and err names  *)
(* the exception.                                                          *)
(***************************************************************************)
EXTENDS Integers, Sequences, FiniteSets, TLC

VARIABLES
    pc,                \* "run": in the line loop, "done": main returned, "failed": exception
    err,               \* the uncaught exception, NoErr while there is none
    lineno,            \* number of lines read from f_in so far
    line,              \* the loop variable of `for line in f_in`
    in_extrude_block,
    cmd_list,
    cartesian_dist,
    extrude_dist,
    in_travel_block,
    feedrate,
    accel_max,
    last_pt,
    out,               \* what cmd_to_file has written to f_out, one entry per output line
    consumed,          \* history: the valid commands parsed so far, in program order
    last_call          \* history: arguments and result of the latest compensate_extrude call

vars == <<pc, err, lineno, line, in_extrude_block, cmd_list, cartesian_dist,
          extrude_dist, in_travel_block, feedrate, accel_max, last_pt, out,
          consumed, last_call>>

\* Length of the input file, in lines.
MaxLines == 5

\* One thousandth-unit per unit in '{:.3f}'.
Scale == 1000

\* C = 0.001, in thousandths.
C == 1

NoErr == "none"
NoCommand == <<>>
G1 == <<"G", "1">>
G28 == <<"G", "2", "8">>
M204 == <<"M", "2", "0", "4">>
invalid == <<"invalid">>

----------------------------------------------------------------------------
(* python dicts *)

Has(d, k) == \E i \in 1..Len(d) : d[i][1] = k

Get(d, k) == d[CHOOSE i \in 1..Len(d) : d[i][1] = k][2]

Pop(d, k) == SelectSeq(d, LAMBDA p : p[1] # k)

Put(d, k, v) ==
    IF Has(d, k)
    THEN [i \in 1..Len(d) |-> IF d[i][1] = k THEN <<k, v>> ELSE d[i]]
    ELSE Append(d, <<k, v>>)

----------------------------------------------------------------------------
(* the input: lines of the gcode file *)

\* A line is its first token (a tuple of characters) and the remaining
\* tokens, each a <<letter, number>> pair.
Ln(head, args) == [head |-> head, args |-> args]

NoLine == Ln(<<>>, <<>>)

Lines ==
    { Ln(<<";">>, <<>>),                                                   \* ; comment
      Ln(M204, << <<"S", 16000>> >>),                                      \* M204 S16.000
      Ln(M204, << <<"P", 16000>> >>),                                      \* M204 P16.000
      Ln(G28, <<>>),                                                       \* G28
      Ln(G1, << <<"Z", 5000>> >>),                                         \* G1 Z5.000
      Ln(G1, << <<"F", 20000>> >>),                                        \* G1 F20.000
      Ln(G1, << <<"X", 4000>>, <<"Y", 3000>> >>),                          \* G1 X4.000 Y3.000
      Ln(G1, << <<"X", 4000>>, <<"Y", 0>>, <<"E", 4>>, <<"F", 20000>> >>), \* G1 X4.000 Y0.000 E0.004 F20.000
      Ln(G1, << <<"X", 9000>>, <<"Y", 0>>, <<"E", 16>> >>),                \* G1 X9.000 Y0.000 E0.016
      Ln(G1, << <<"X", 9000>>, <<"Y", 0>>, <<"E", 10>> >>),                \* G1 X9.000 Y0.000 E0.010
      Ln(G1, << <<"X", 9000>>, <<"Y", 0>>, <<"E", 8>> >>),                 \* G1 X9.000 Y0.000 E0.008
      Ln(G1, << <<"X", 9000>>, <<"Y", 0>>, <<"E", 5>> >>),                 \* G1 X9.000 Y0.000 E0.005
      Ln(G1, << <<"X", 4000>>, <<"E", 9>> >>) }                            \* G1 X4.000 E0.009

----------------------------------------------------------------------------
(* parse_command *)

upper(ch) ==
    CASE ch = "x" -> "X" [] ch = "y" -> "Y" [] ch = "z" -> "Z"
      [] ch = "e" -> "E" [] ch = "f" -> "F" [] ch = "s" -> "S"
      [] OTHER -> ch

RECURSIVE cmd_dict_fill(_, _)
cmd_dict_fill(d, toks) ==
    IF toks = <<>> THEN d
    ELSE cmd_dict_fill(Put(d, upper(Head(toks)[1]), Head(toks)[2]), Tail(toks))

\* parse_command without the test of the first character
parse_command_any(cmd) ==
    [command |-> cmd.head, fields |-> cmd_dict_fill(<<>>, cmd.args)]

parse_command(cmd) ==
    IF cmd.head[1] = "G" \/ cmd.head[1] = "M"
    THEN [command |-> cmd.head, fields |-> cmd_dict_fill(<<>>, cmd.args)]
    ELSE [command |-> invalid, fields |-> <<>>]

----------------------------------------------------------------------------
(* the classifier *)

is_travel_cmd(cmd) ==
    /\ cmd.command = G1
    /\ Has(cmd.fields, "X") \/ Has(cmd.fields, "Y")
    /\ ~Has(cmd.fields, "Z")
    /\ ~Has(cmd.fields, "E")

is_extrude_cmd(cmd) ==
    /\ cmd.command = G1
    /\ Has(cmd.fields, "X") \/ Has(cmd.fields, "Y")
    /\ ~Has(cmd.fields, "Z")
    /\ Has(cmd.fields, "E")

----------------------------------------------------------------------------
(* cmd_to_file: the lines written for a list of command dicts *)

write_cmd(cmd) ==
    [command |-> IF cmd.command # NoCommand THEN cmd.command ELSE G1,
     fields  |-> cmd.fields]

cmd_to_file(cmds) == [i \in 1..Len(cmds) |-> write_cmd(cmds[i])]

----------------------------------------------------------------------------
(* arithmetic *)

RECURSIVE sqrt_search(_, _, _)
sqrt_search(n, lo, hi) ==
    IF lo >= hi THEN lo
    ELSE LET mid == (lo + hi + 1) \div 2
         IN  IF mid * mid <= n THEN sqrt_search(n, mid, hi)
                               ELSE sqrt_search(n, lo, mid - 1)

\* math.sqrt on a non-negative argument
sqrt(n) == sqrt_search(n, 0, IF n < 46340 THEN n ELSE 46340)

\* math.sqrt((x2 - x1)**2 + (y2 - y1)**2)
segment_len(x1, y1, x2, y2) ==
    sqrt((x2 - x1) * (x2 - x1) + (y2 - y1) * (y2 - y1))

----------------------------------------------------------------------------
(* compensate_extrude *)

Result(e, l) == [err |-> e, list |-> l]

\* The exception raised while the velocity profile is computed, if any:
\* feedrate/accel with accel = 0, math.sqrt(dist/accel) of a negative
\* number, and the undefined name `speed` in the branch taken when
\* feedrate/accel < math.sqrt(dist/accel).  For accel # 0 and dist/accel >= 0
\* that test is the same as  feedrate/accel < 0  or  feedrate^2 < dist*accel.
reaches_speed(dist, feedrate_, accel) ==
    feedrate_ * accel < 0 \/ feedrate_ * feedrate_ < dist * accel

profile_error(dist, feedrate_, accel) ==
    IF accel = 0 THEN "ZeroDivisionError"
    ELSE IF dist * accel < 0 THEN "ValueError"
    ELSE IF reaches_speed(dist, feedrate_, accel) THEN "NameError"
    ELSE NoErr

\* V_leak when the profile is computed without an exception, that is in the
\* else branch: accel_frac = 1, max_speed = sqrt(dist*accel).
leak_volume(dist, feedrate_, accel) ==
    LET accel_frac == Scale
        max_speed  == sqrt(dist * accel)
        avg_speed  == ((max_speed \div 2) * accel_frac) \div Scale
                      + (max_speed * (Scale - accel_frac)) \div Scale
    IN  (C * avg_speed) \div Scale

SetField(cmd, k, v) == [cmd EXCEPT !.fields = Put(@, k, v)]

PopField(cmd, k) == [cmd EXCEPT !.fields = Pop(@, k)]

Fld(cmd, k) == Get(cmd.fields, k)

\* list.insert(i, x) with i the 0-based python index
Insert(l, i, x) == SubSeq(l, 1, i) \o <<x>> \o SubSeq(l, i + 1, Len(l))

\* single_cmd without the test V_leak < e_dist
single_cmd_unchecked(cl, V_leak, e_dist) ==
    Result(NoErr, [cl EXCEPT ![1] = SetField(@, "E", Fld(@, "E") - V_leak)])

\* single_cmd with V_leak <= e_dist in place of V_leak < e_dist
single_cmd_inclusive(cl, V_leak, e_dist) ==
    IF V_leak <= e_dist
    THEN Result(NoErr, [cl EXCEPT ![1] = SetField(@, "E", Fld(@, "E") - V_leak)])
    ELSE Result(NoErr, [cl EXCEPT ![1] = PopField(@, "E")])

\* the block of exactly one command
single_cmd(cl, V_leak, e_dist) ==
    IF V_leak < e_dist
    THEN Result(NoErr, [cl EXCEPT ![1] = SetField(@, "E", Fld(@, "E") - V_leak)])
    ELSE Result(NoErr, [cl EXCEPT ![1] = PopField(@, "E")])

\* split_cmd whose inserted command reads X and Y after they were rewritten
split_cmd_moved(cl, i, V_leak, e_delta) ==
    IF e_delta = 0 THEN Result("ZeroDivisionError", cl)
    ELSE
    LET extrude_frac == Scale - (V_leak * Scale) \div e_delta
        prev   == IF i = 0 THEN Len(cl) ELSE i
        x_prev == Fld(cl[prev], "X")
        y_prev == Fld(cl[prev], "Y")
        x      == x_prev + (extrude_frac * (Fld(cl[i + 1], "X") - x_prev)) \div Scale
        y      == y_prev + (extrude_frac * (Fld(cl[i + 1], "Y") - y_prev)) \div Scale
        c1     == SetField(cl[i + 1], "E", Fld(cl[i + 1], "E") - V_leak)
        c2     == SetField(c1, "X", x)
        c3     == SetField(c2, "Y", y)
        new    == [command |-> G1, fields |-> << <<"X", x>>, <<"Y", y>> >>]
    IN  Result(NoErr, Insert([cl EXCEPT ![i + 1] = c3], i + 1, new))

\* the else branch of the walk at python index i: command i is divided in two.
\* cmd_list[i-1] with i = 0 is cmd_list[-1], the last command of the list.
split_cmd(cl, i, V_leak, e_delta) ==
    IF e_delta = 0 THEN Result("ZeroDivisionError", cl)
    ELSE
    LET extrude_frac == Scale - (V_leak * Scale) \div e_delta
        prev   == IF i = 0 THEN Len(cl) ELSE i
        x_prev == Fld(cl[prev], "X")
        y_prev == Fld(cl[prev], "Y")
        x      == Fld(cl[i + 1], "X")
        y      == Fld(cl[i + 1], "Y")
        c1     == SetField(cl[i + 1], "E", Fld(cl[i + 1], "E") - V_leak)
        c2     == SetField(c1, "X", x_prev + (extrude_frac * (x - x_prev)) \div Scale)
        c3     == SetField(c2, "Y", y_prev + (extrude_frac * (y - y_prev)) \div Scale)
        new    == [command |-> G1, fields |-> << <<"X", x>>, <<"Y", y>> >>]
    IN  Result(NoErr, Insert([cl EXCEPT ![i + 1] = c3], i + 1, new))

\* reverse_walk without the break after the split
RECURSIVE reverse_walk_nobreak(_, _, _)
reverse_walk_nobreak(cl, i, V_leak) ==
    IF i < 0 THEN Result(NoErr, cl)
    ELSE
    LET e_delta == IF i = 0 THEN Fld(cl[1], "E")
                   ELSE Fld(cl[i + 1], "E") - Fld(cl[i], "E")
    IN  IF V_leak > e_delta
        THEN reverse_walk_nobreak([cl EXCEPT ![i + 1] = PopField(@, "E")], i - 1, V_leak - e_delta)
        ELSE IF split_cmd(cl, i, V_leak, e_delta).err # NoErr
        THEN split_cmd(cl, i, V_leak, e_delta)
        ELSE reverse_walk_nobreak(split_cmd(cl, i, V_leak, e_delta).list, i - 1, V_leak)

\* reverse_walk that does not reduce V_leak by the extrusion it removed
RECURSIVE reverse_walk_keep(_, _, _)
reverse_walk_keep(cl, i, V_leak) ==
    IF i < 0 THEN Result(NoErr, cl)
    ELSE
    LET e_delta == IF i = 0 THEN Fld(cl[1], "E")
                   ELSE Fld(cl[i + 1], "E") - Fld(cl[i], "E")
    IN  IF V_leak > e_delta
        THEN reverse_walk_keep([cl EXCEPT ![i + 1] = PopField(@, "E")], i - 1, V_leak)
        ELSE split_cmd(cl, i, V_leak, e_delta)

\* for i in range(N-1, -1, -1), from python index i on, with V_leak left
RECURSIVE reverse_walk(_, _, _)
reverse_walk(cl, i, V_leak) ==
    IF i < 0 THEN Result(NoErr, cl)
    ELSE
    LET e_delta == IF i = 0 THEN Fld(cl[1], "E")
                   ELSE Fld(cl[i + 1], "E") - Fld(cl[i], "E")
    IN  IF V_leak > e_delta
        THEN reverse_walk([cl EXCEPT ![i + 1] = PopField(@, "E")], i - 1, V_leak - e_delta)
        ELSE split_cmd(cl, i, V_leak, e_delta)

compensate_extrude(cl, dist, e_dist, feedrate_, accel) ==
    IF Len(cl) = 0 THEN Result(NoErr, cl)
    ELSE IF profile_error(dist, feedrate_, accel) # NoErr
    THEN Result(profile_error(dist, feedrate_, accel), cl)
    ELSE IF Len(cl) = 1
    THEN single_cmd(cl, leak_volume(dist, feedrate_, accel), e_dist)
    ELSE reverse_walk(cl, Len(cl) - 1, leak_volume(dist, feedrate_, accel))

compensate_travel(cl, dist) == cl

----------------------------------------------------------------------------
(* main: the body of the line loop, as a chain of steps over the locals *)

Call(cl, dist, e_dist, feedrate_, accel, r) ==
    [cmd_list |-> cl, dist |-> dist, e_dist |-> e_dist, feedrate |-> feedrate_,
     accel |-> accel, err |-> r.err, ret |-> r.list]

NoCall == Call(<<>>, 0, 0, 0, 0, Result(NoErr, <<>>))

Locals ==
    [in_extrude_block |-> in_extrude_block, cmd_list |-> cmd_list,
     cartesian_dist |-> cartesian_dist, extrude_dist |-> extrude_dist,
     in_travel_block |-> in_travel_block, feedrate |-> feedrate,
     accel_max |-> accel_max, last_pt |-> last_pt, out |-> out,
     err |-> err, last_call |-> last_call]

\* lines 164-165
set_feedrate(s, parsed_cmd) ==
    IF Has(parsed_cmd.fields, "F")
    THEN [s EXCEPT !.feedrate = Get(parsed_cmd.fields, "F")]
    ELSE s

\* close_extrude_block that also resets the feedrate with the block's totals
close_extrude_block_reset(s, parsed_cmd) ==
    IF s.err = NoErr /\ s.in_extrude_block /\ ~is_extrude_cmd(parsed_cmd)
    THEN LET e == Fld(s.cmd_list[Len(s.cmd_list)], "E")
             r == compensate_extrude(s.cmd_list, s.cartesian_dist, e,
                                     s.feedrate, s.accel_max)
             t == [s EXCEPT !.in_extrude_block = FALSE,
                            !.extrude_dist = e,
                            !.feedrate = 0,
                            !.last_call = Call(s.cmd_list, s.cartesian_dist, e,
                                               s.feedrate, s.accel_max, r)]
         IN  IF r.err # NoErr
             THEN [t EXCEPT !.err = r.err]
             ELSE [t EXCEPT !.out = @ \o cmd_to_file(r.list),
                            !.cmd_list = <<>>]
    ELSE s

\* lines 168-178
close_extrude_block(s, parsed_cmd) ==
    IF s.err = NoErr /\ s.in_extrude_block /\ ~is_extrude_cmd(parsed_cmd)
    THEN LET e == Fld(s.cmd_list[Len(s.cmd_list)], "E")
             r == compensate_extrude(s.cmd_list, s.cartesian_dist, e,
                                     s.feedrate, s.accel_max)
             t == [s EXCEPT !.in_extrude_block = FALSE,
                            !.extrude_dist = e,
                            !.last_call = Call(s.cmd_list, s.cartesian_dist, e,
                                               s.feedrate, s.accel_max, r)]
         IN  IF r.err # NoErr
             THEN [t EXCEPT !.err = r.err]
             ELSE [t EXCEPT !.out = @ \o cmd_to_file(r.list),
                            !.cmd_list = <<>>]
    ELSE s

\* the running total of lines 185-188 and 211-214
add_segment(s) ==
    LET n == Len(s.cmd_list)
    IN  IF n > 1
        THEN s.cartesian_dist
             + segment_len(Fld(s.cmd_list[n - 1], "X"), Fld(s.cmd_list[n - 1], "Y"),
                           Fld(s.cmd_list[n], "X"), Fld(s.cmd_list[n], "Y"))
        ELSE segment_len(s.last_pt[1], s.last_pt[2],
                         Fld(s.cmd_list[n], "X"), Fld(s.cmd_list[n], "Y"))

\* close_travel_block that leaves in_travel_block set
close_travel_block_keep(s, parsed_cmd) ==
    IF s.err = NoErr /\ s.in_travel_block /\ ~is_travel_cmd(parsed_cmd)
    THEN [s EXCEPT !.cartesian_dist = add_segment(s),
                   !.out = @ \o cmd_to_file(compensate_travel(s.cmd_list, add_segment(s))),
                   !.cmd_list = <<>>]
    ELSE s

\* lines 181-195
close_travel_block(s, parsed_cmd) ==
    IF s.err = NoErr /\ s.in_travel_block /\ ~is_travel_cmd(parsed_cmd)
    THEN [s EXCEPT !.in_travel_block = FALSE,
                   !.cartesian_dist = add_segment(s),
                   !.out = @ \o cmd_to_file(compensate_travel(s.cmd_list, add_segment(s))),
                   !.cmd_list = <<>>]
    ELSE s

\* append_extrude that stamps the feedrate of before this command's F was applied
append_extrude_stale(s, parsed_cmd) ==
    IF s.err = NoErr /\ is_extrude_cmd(parsed_cmd)
    THEN LET t == IF ~s.in_extrude_block
                  THEN [s EXCEPT !.in_extrude_block = TRUE,
                                 !.cartesian_dist = 0,
                                 !.extrude_dist = 0]
                  ELSE s
         IN  IF ~(Has(parsed_cmd.fields, "X") /\ Has(parsed_cmd.fields, "Y"))
             THEN [t EXCEPT !.err = "KeyError"]
             ELSE LET tmp == [command |-> NoCommand,
                              fields |-> << <<"X", Get(parsed_cmd.fields, "X")>>,
                                            <<"Y", Get(parsed_cmd.fields, "Y")>>,
                                            <<"E", Get(parsed_cmd.fields, "E")>>,
                                            <<"F", feedrate>> >>]
                      u   == [t EXCEPT !.cmd_list = Append(@, tmp)]
                  IN  [u EXCEPT !.cartesian_dist = add_segment(u)]
    ELSE s

\* lines 198-214
append_extrude(s, parsed_cmd) ==
    IF s.err = NoErr /\ is_extrude_cmd(parsed_cmd)
    THEN LET t == IF ~s.in_extrude_block
                  THEN [s EXCEPT !.in_extrude_block = TRUE,
                                 !.cartesian_dist = 0,
                                 !.extrude_dist = 0]
                  ELSE s
         IN  IF ~(Has(parsed_cmd.fields, "X") /\ Has(parsed_cmd.fields, "Y"))
             THEN [t EXCEPT !.err = "KeyError"]
             ELSE LET tmp == [command |-> NoCommand,
                              fields |-> << <<"X", Get(parsed_cmd.fields, "X")>>,
                                            <<"Y", Get(parsed_cmd.fields, "Y")>>,
                                            <<"E", Get(parsed_cmd.fields, "E")>>,
                                            <<"F", t.feedrate>> >>]
                      u   == [t EXCEPT !.cmd_list = Append(@, tmp)]
                  IN  [u EXCEPT !.cartesian_dist = add_segment(u)]
    ELSE s

\* lines 217-225
append_travel(s, parsed_cmd) ==
    IF s.err = NoErr /\ is_travel_cmd(parsed_cmd)
    THEN LET t == IF ~s.in_travel_block
                  THEN [s EXCEPT !.in_travel_block = TRUE,
                                 !.cartesian_dist = 0]
                  ELSE s
         IN  IF ~(Has(parsed_cmd.fields, "X") /\ Has(parsed_cmd.fields, "Y"))
             THEN [t EXCEPT !.err = "KeyError"]
             ELSE LET tmp == [command |-> NoCommand,
                              fields |-> << <<"X", Get(parsed_cmd.fields, "X")>>,
                                            <<"Y", Get(parsed_cmd.fields, "Y")>>,
                                            <<"F", t.feedrate>> >>]
                  IN  [t EXCEPT !.cmd_list = Append(@, tmp)]
    ELSE s

\* lines 228-233
other_cmd(s, parsed_cmd) ==
    IF s.err = NoErr /\ ~is_travel_cmd(parsed_cmd) /\ ~is_extrude_cmd(parsed_cmd)
    THEN IF parsed_cmd.command = M204 /\ ~Has(parsed_cmd.fields, "S")
         THEN [s EXCEPT !.err = "KeyError"]
         ELSE [s EXCEPT !.accel_max = IF parsed_cmd.command = M204
                                      THEN Get(parsed_cmd.fields, "S") ELSE @,
                        !.out = @ \o cmd_to_file(<<parsed_cmd>>),
                        !.cmd_list = <<>>]
    ELSE s

\* process_cmd that applies F after the Extrude block was closed
process_cmd_late(s, parsed_cmd) ==
    other_cmd(
      append_travel(
        append_extrude(
          close_travel_block(
            set_feedrate(
              close_extrude_block(s, parsed_cmd), parsed_cmd), parsed_cmd), parsed_cmd), parsed_cmd), parsed_cmd)

\* lines 162-233, for a command that is not 'invalid'
process_cmd(s, parsed_cmd) ==
    other_cmd(
      append_travel(
        append_extrude(
          close_travel_block(
            close_extrude_block(
              set_feedrate(s, parsed_cmd), parsed_cmd), parsed_cmd), parsed_cmd), parsed_cmd), parsed_cmd)

----------------------------------------------------------------------------
(* the run *)

Init ==
    /\ pc = "run"
    /\ err = NoErr
    /\ lineno = 0
    /\ line = NoLine
    /\ in_extrude_block = FALSE
    /\ cmd_list = <<>>
    /\ cartesian_dist = 0
    /\ extrude_dist = 0
    /\ in_travel_block = FALSE
    /\ feedrate = 0
    /\ accel_max = 0
    /\ last_pt = <<0, 0>>
    /\ out = <<>>
    /\ consumed = <<>>
    /\ last_call = NoCall

\* one iteration of `for line in f_in`
ReadLine ==
    /\ pc = "run"
    /\ lineno < MaxLines
    /\ \E l \in Lines :
        LET parsed_cmd == parse_command(l)
            valid == parsed_cmd.command # invalid
            s == IF valid THEN process_cmd(Locals, parsed_cmd) ELSE Locals
        IN  /\ line' = l
            /\ lineno' = lineno + 1
            /\ consumed' = IF valid THEN Append(consumed, parsed_cmd) ELSE consumed
            /\ in_extrude_block' = s.in_extrude_block
            /\ cmd_list' = s.cmd_list
            /\ cartesian_dist' = s.cartesian_dist
            /\ extrude_dist' = s.extrude_dist
            /\ in_travel_block' = s.in_travel_block
            /\ feedrate' = s.feedrate
            /\ accel_max' = s.accel_max
            /\ last_pt' = s.last_pt
            /\ out' = s.out
            /\ last_call' = s.last_call
            /\ err' = s.err
            /\ pc' = IF s.err # NoErr THEN "failed" ELSE "run"

\* f_in is exhausted: lines 235-236
EndOfStream ==
    /\ pc = "run"
    /\ out' = IF Len(cmd_list) # 0 THEN out \o cmd_to_file(cmd_list) ELSE out
    /\ pc' = "done"
    /\ UNCHANGED <<err, lineno, line, in_extrude_block, cmd_list, cartesian_dist,
                   extrude_dist, in_travel_block, feedrate, accel_max, last_pt,
                   consumed, last_call>>

Next == ReadLine \/ EndOfStream

Spec == Init /\ [][Next]_vars

----------------------------------------------------------------------------
(* vocabulary of the properties *)

Last(q) == q[Len(q)]

\* the (X, Y) of a command; a missing coordinate is the empty tuple
XY(cmd) ==
    << IF Has(cmd.fields, "X") THEN <<Fld(cmd, "X")>> ELSE <<>>,
       IF Has(cmd.fields, "Y") THEN <<Fld(cmd, "Y")>> ELSE <<>> >>

XYs(cmds) == [i \in 1..Len(cmds) |-> XY(cmds[i])]

\* An output line "G1 Xx Yy" with no other field is a command inserted by a
\* split: a buffered Travel or Extrude command always carries F, and a G1
\* that passes through as Other carries Z or lacks both X and Y.
IsInserted(w) ==
    /\ w.command = G1
    /\ Len(w.fields) = 2
    /\ Has(w.fields, "X") /\ Has(w.fields, "Y")

WithoutInserted(ws) == SelectSeq(ws, LAMBDA w : ~IsInserted(w))

IsMotion(cmd) == is_travel_cmd(cmd) \/ is_extrude_cmd(cmd)

\* compensate_extrude has been called, and it returned
Called == last_call.cmd_list # <<>>

Returned == Called /\ last_call.err = NoErr

\* the latest call split a command: the returned list is one longer
IsSplit == Returned /\ Len(last_call.ret) = Len(last_call.cmd_list) + 1

\* index, in the block, of the command that was split
SplitAt == CHOOSE i \in 1..Len(last_call.cmd_list) : last_call.ret[i + 1].command = G1

\* position in the returned list of command i of the block
RetIdx(i) == IF IsSplit /\ i > SplitAt THEN i + 1 ELSE i

\* the per-segment delta of command i of a block
Delta(cl, i) == IF i = 1 THEN Fld(cl[1], "E") ELSE Fld(cl[i], "E") - Fld(cl[i - 1], "E")

Dropped(i) == ~Has(last_call.ret[RetIdx(i)].fields, "E")

\* extrusion removed from segment i by the latest call
Removed(i) ==
    IF Dropped(i) THEN Delta(last_call.cmd_list, i)
    ELSE Fld(last_call.cmd_list[i], "E") - Fld(last_call.ret[RetIdx(i)], "E")

RECURSIVE SumRemoved(_)
SumRemoved(n) == IF n = 0 THEN 0 ELSE Removed(n) + SumRemoved(n - 1)

\* the step just taken read a line that parse_command accepted, seen from the
\* state before (the line is line')
ReadsCmd == lineno' = lineno + 1 /\ parse_command(line').command # invalid

----------------------------------------------------------------------------
(* C1 *)

\* what closing the block that is open now would emit
ClosedNow ==
    compensate_extrude(cmd_list, cartesian_dist, Fld(Last(cmd_list), "E"),
                       feedrate, accel_max)

\* C1: when the stream ends while an Extrude block is open, the block is run
\* through the LeakCompensator (cumulative distance, last E, current feedrate,
\* current max acceleration) and the compensated commands are what is emitted.
C1_EndOfStreamCompensates ==
    (pc = "done" /\ in_extrude_block /\ cmd_list # <<>> /\ ClosedNow.err = NoErr)
        => /\ Len(out) >= Len(ClosedNow.list)
           /\ SubSeq(out, Len(out) - Len(ClosedNow.list) + 1, Len(out))
                = cmd_to_file(ClosedNow.list)

----------------------------------------------------------------------------
(* C2 *)

\* C2: an Extrude block closed while max acceleration is 0 or while its
\* cumulative distance is 0 does not make the LeakCompensator fail.
C2_DegenerateInputsDoNotFail ==
    (Called /\ (last_call.accel = 0 \/ last_call.dist = 0)) => last_call.err = NoErr

----------------------------------------------------------------------------
(* C3 *)

\* C3: when the run has ended, the output without the commands inserted by a
\* split has as many commands as the input without Invalid lines, with the
\* same (X, Y) sequence in the same order.
C3_SegmentationComplete ==
    pc \in {"done", "failed"} => XYs(WithoutInserted(out)) = XYs(consumed)

----------------------------------------------------------------------------
(* C4 *)

\* C4: when the LeakCompensator splits command i, the returned list holds,
\* in place of command i, the rewritten command (still extruding) followed
\* immediately by a new G1 with only X and Y, equal to the original (x, y) of
\* command i; every other command keeps its place and its point, so the pair
\* starts where command i started and ends where it ended.
C4_SplitCorrect ==
    IsSplit =>
        LET cl  == last_call.cmd_list
            ret == last_call.ret
            i   == SplitAt
        IN  /\ ret[i].command = NoCommand
            /\ Has(ret[i].fields, "E")
            /\ ret[i + 1] = [command |-> G1,
                             fields |-> << <<"X", Fld(cl[i], "X")>>,
                                           <<"Y", Fld(cl[i], "Y")>> >>]
            /\ \A k \in 1..Len(cl) :
                   k # i => /\ ret[RetIdx(k)].command = NoCommand
                            /\ XY(ret[RetIdx(k)]) = XY(cl[k])

\* a split whose rewritten command ends short of the original point
C4_Witness ==
    /\ IsSplit
    /\ XY(last_call.ret[SplitAt]) # XY(last_call.cmd_list[SplitAt])

----------------------------------------------------------------------------
(* C5 *)

\* the latest call removed extrusion from segment i: its E was dropped or changed
Touched(i) == Dropped(i) \/ Removed(i) # 0

\* C5: no command returned by the LeakCompensator carries a negative E, and
\* for every segment that extrusion was removed from, the amount removed is
\* at most that segment's original per-segment delta (and is never negative
\* for a command that keeps its E).
C5_LeakMonotone ==
    Returned =>
        /\ \A k \in 1..Len(last_call.ret) :
               Has(last_call.ret[k].fields, "E") => Fld(last_call.ret[k], "E") >= 0
        /\ \A i \in 1..Len(last_call.cmd_list) :
               /\ Touched(i) => Removed(i) <= Delta(last_call.cmd_list, i)
               /\ ~Dropped(i) => Removed(i) >= 0

\* a single-command block whose E was dropped, and a block with a reduced E
C5_Witness ==
    /\ Returned
    /\ \/ Len(last_call.cmd_list) = 1 /\ Dropped(1)
       \/ \E i \in 1..Len(last_call.cmd_list) : ~Dropped(i) /\ Removed(i) > 0

----------------------------------------------------------------------------
(* C6 *)

\* C6: the total extrusion removed from a block (the deltas of the commands
\* whose E was dropped plus the amount subtracted from the split or single
\* command) is at most the V_leak computed for the block, and is V_leak when
\* a command was split.
C6_Conservation ==
    Returned =>
        LET V == leak_volume(last_call.dist, last_call.feedrate, last_call.accel)
            removed == SumRemoved(Len(last_call.cmd_list))
        IN  /\ removed <= V
            /\ IsSplit => removed = V

\* a split that comes after at least one fully de-extruded command
C6_Witness ==
    /\ IsSplit
    /\ SplitAt < Len(last_call.cmd_list)
    /\ Dropped(Len(last_call.cmd_list))

----------------------------------------------------------------------------
(* C7 *)

Motions == SelectSeq(consumed, IsMotion)

RECURSIVE PathLen(_, _)
\* the sum of the segment lengths of the path pts[1], pts[2], ...
PathLen(pts, n) ==
    IF n <= 1 THEN 0
    ELSE PathLen(pts, n - 1)
         + segment_len(pts[n - 1][1], pts[n - 1][2], pts[n][1], pts[n][2])

Point(cmd) == <<Fld(cmd, "X"), Fld(cmd, "Y")>>

\* the last-known position before the open block: the point of the motion
\* command that precedes the block's commands, the origin if there is none
PreBlockPoint ==
    IF Len(Motions) > Len(cmd_list)
    THEN Point(Motions[Len(Motions) - Len(cmd_list)])
    ELSE <<0, 0>>

\* C7: the persisted last-known position is the (X, Y) of the most recently
\* processed motion command, and the cumulative distance of the open Extrude
\* block (the D handed to the LeakCompensator when it closes) is the sum of
\* the distances between consecutive points, starting from the last-known
\* position before the block opened.
C7_DistanceAndLastPoint ==
    (pc = "run" /\ Motions # <<>>) =>
        /\ last_pt = Point(Last(Motions))
        /\ in_extrude_block =>
               cartesian_dist =
                   PathLen(<<PreBlockPoint>> \o [i \in 1..Len(cmd_list) |-> Point(cmd_list[i])],
                           Len(cmd_list) + 1)

----------------------------------------------------------------------------
(* C8 *)

\* C8: an M204 with an S field read while an Extrude block is open closes
\* the block with the max acceleration in effect before it, emits the
\* compensated commands, sets max acceleration to S and emits itself after
\* the block's commands.
C8_M204ClosesThenSets ==
    [][(/\ ReadsCmd
        /\ in_extrude_block
        /\ parse_command(line').command = M204
        /\ Has(parse_command(line').fields, "S"))
       => /\ pc' = "run"
          /\ last_call'.accel = accel_max
          /\ last_call'.cmd_list = cmd_list
          /\ out' = out \o cmd_to_file(last_call'.ret)
                        \o cmd_to_file(<<parse_command(line')>>)
          /\ accel_max' = Get(parse_command(line').fields, "S")]_vars

----------------------------------------------------------------------------
(* C9 *)

\* C9: a valid command that is neither Travel nor Extrude closes and emits
\* the open block, is not buffered, and is emitted standalone, last, with its
\* tag and fields unchanged.
C9_OtherPassesThrough ==
    [][(ReadsCmd /\ ~IsMotion(parse_command(line')))
       => /\ pc' = "run"
          /\ cmd_list' = <<>>
          /\ ~in_extrude_block' /\ ~in_travel_block'
          /\ Len(out') >= Len(out) + Len(cmd_list) + 1
          /\ SubSeq(out', 1, Len(out)) = out
          /\ Last(out') = parse_command(line')]_vars

----------------------------------------------------------------------------
(* C10 *)

\* C10: reading a line whose first token starts with neither G nor M writes
\* nothing and changes no Segmenter state.
C10_InvalidIsInert ==
    [][(lineno' = lineno + 1 /\ line'.head[1] \notin {"G", "M"})
       => UNCHANGED <<pc, err, in_extrude_block, cmd_list, cartesian_dist,
                      extrude_dist, in_travel_block, feedrate, accel_max,
                      last_pt, out>>]_vars

\* an invalid line has just been read while a block with commands is open
C10_Witness ==
    /\ lineno > 0
    /\ line.head[1] \notin {"G", "M"}
    /\ in_extrude_block
    /\ Len(cmd_list) = 2

----------------------------------------------------------------------------
(* C11 *)

\* C11: a non-empty Extrude block closed with A > 0 and D > 0 for which the
\* test F/A < sqrt(D/A) succeeds is compensated without an exception.
C11_ReachedBranchCompletes ==
    (/\ Called
     /\ last_call.accel > 0
     /\ last_call.dist > 0
     /\ reaches_speed(last_call.dist, last_call.feedrate, last_call.accel))
        => last_call.err = NoErr

----------------------------------------------------------------------------
(* C12 *)

\* the command read by this step needs no block close before it is buffered
NoCloseNeeded ==
    /\ ~(in_extrude_block /\ ~is_extrude_cmd(parse_command(line')))
    /\ ~(in_travel_block /\ ~is_travel_cmd(parse_command(line')))

\* C12: a command that the classifier accepts as Travel or Extrude is
\* appended to the open block without an exception, also when it carries
\* only one of X and Y.
C12_ClassifiedIsBuffered ==
    [][(ReadsCmd /\ IsMotion(parse_command(line')) /\ NoCloseNeeded)
       => /\ pc' = "run"
          /\ Len(cmd_list') = Len(cmd_list) + 1]_vars

----------------------------------------------------------------------------
(* C13 *)

\* V_leak of the latest call
CallLeak == leak_volume(last_call.dist, last_call.feedrate, last_call.accel)

\* C13: for a block of exactly one command the LeakCompensator returns one
\* command with X, Y and F unchanged; its E is the original E minus V_leak
\* when V_leak < E_total (the command's E), and it has no E otherwise.
C13_SingleCommand ==
    (Returned /\ Len(last_call.cmd_list) = 1) =>
        LET c == last_call.cmd_list[1]
            r == last_call.ret
        IN  /\ Len(r) = 1
            /\ last_call.e_dist = Fld(c, "E")
            /\ r[1].command = c.command
            /\ Pop(r[1].fields, "E") = Pop(c.fields, "E")
            /\ CallLeak < last_call.e_dist
                   => Has(r[1].fields, "E") /\ Fld(r[1], "E") = Fld(c, "E") - CallLeak
            /\ CallLeak >= last_call.e_dist => ~Has(r[1].fields, "E")

\* a one-command block whose E equals V_leak, and was dropped
C13_Witness ==
    /\ Returned
    /\ Len(last_call.cmd_list) = 1
    /\ CallLeak = last_call.e_dist
    /\ CallLeak > 0
    /\ ~Has(last_call.ret[1].fields, "E")

----------------------------------------------------------------------------
(* C14 *)

RECURSIVE DeltaAfter(_)
\* the sum of the per-segment deltas of the commands after command i
DeltaAfter(i) ==
    IF i >= Len(last_call.cmd_list) THEN 0
    ELSE Delta(last_call.cmd_list, i + 1) + DeltaAfter(i + 1)

\* the leak budget left when the reverse walk arrives at command i
Budget(i) == CallLeak - DeltaAfter(i)

\* the reverse walk arrived at command i: every later command was dropped
Arrived(i) == \A k \in (i + 1)..Len(last_call.cmd_list) : Dropped(k)

\* C14: in a block of two or more commands, a command whose delta is at most
\* the remaining budget (equal included) has its E dropped and is not split;
\* a command is split only when the remaining budget is strictly smaller
\* than its delta.
C14_WalkBoundary ==
    (Returned /\ Len(last_call.cmd_list) >= 2) =>
        /\ \A i \in 1..Len(last_call.cmd_list) :
               (Arrived(i) /\ Budget(i) >= Delta(last_call.cmd_list, i))
                   => Dropped(i) /\ ~(IsSplit /\ SplitAt = i)
        /\ IsSplit => Budget(SplitAt) < Delta(last_call.cmd_list, SplitAt)

----------------------------------------------------------------------------
(* C15 *)

\* this step closes the open Extrude block: it calls compensate_extrude
ClosesExtrude ==
    ReadsCmd /\ in_extrude_block /\ ~is_extrude_cmd(parse_command(line'))

\* prev + extrude_frac * (orig - prev), extrude_frac = 1 - V/e_delta
Interpolated(prev, orig, V, e_delta) ==
    prev + ((Scale - (V * Scale) \div e_delta) * (orig - prev)) \div Scale

\* C15: when command i of a block of two or more commands is split, the
\* rewritten command ends at prev + extrude_frac * (orig - prev), prev being
\* the point of the command that precedes command i in program order (for
\* the first command of the block, the last-known position from before the
\* block), never the point of a later command of the block.
C15_SplitInterpolatesFromPrevious ==
    [][(ClosesExtrude /\ Len(cmd_list) >= 2 /\ IsSplit')
       => LET i    == SplitAt'
              prev == IF i = 1 THEN PreBlockPoint ELSE Point(cmd_list[i - 1])
              orig == Point(cmd_list[i])
              V    == Fld(cmd_list[i], "E") - Fld(last_call'.ret[i], "E")
              d    == Delta(cmd_list, i)
          IN  Point(last_call'.ret[i])
                = << Interpolated(prev[1], orig[1], V, d),
                     Interpolated(prev[2], orig[2], V, d) >>]_vars

----------------------------------------------------------------------------
(* C16 *)

\* the commands of the returned list that carry a tag: the inserted ones
InsertedIn(ret) == {k \in 1..Len(ret) : ret[k].command # NoCommand}

\* C16: for a block of two or more commands, the commands whose E was
\* dropped are a suffix of the block; at most one command is split and it is
\* the one just before that suffix; every other command is returned
\* unchanged; a dropped command differs from the original only by the
\* missing E; the returned list has as many commands as the block, or one
\* more.
C16_OnlyTheTailIsTouched ==
    (Returned /\ Len(last_call.cmd_list) >= 2) =>
        LET cl  == last_call.cmd_list
            ret == last_call.ret
            n   == Len(cl)
        IN  /\ Len(ret) = n \/ Len(ret) = n + 1
            /\ Cardinality(InsertedIn(ret)) = Len(ret) - n
            /\ \A i \in 1..n : Dropped(i) => Arrived(i)
            /\ IsSplit => ~Dropped(SplitAt) /\ Arrived(SplitAt)
            /\ \A i \in 1..n :
                   /\ Dropped(i) => ret[RetIdx(i)] = PopField(cl[i], "E")
                   /\ (~Dropped(i) /\ ~(IsSplit /\ i = SplitAt)) => ret[RetIdx(i)] = cl[i]

\* a block of three commands: the first unchanged, the second split, the
\* third dropped
C16_Witness ==
    /\ IsSplit
    /\ Len(last_call.cmd_list) = 3
    /\ SplitAt = 2
    /\ Dropped(3)
    /\ last_call.ret[1] = last_call.cmd_list[1]

----------------------------------------------------------------------------
(* C17 *)

\* C17: an Extrude command that is buffered carries an F field equal to the
\* persistent feedrate at that moment: the command's own F when it has one,
\* otherwise the feedrate left by the earlier commands.
C17_BufferedExtrudeCarriesFeedrate ==
    [][(ReadsCmd /\ is_extrude_cmd(parse_command(line')) /\ pc' = "run")
       => /\ cmd_list' # <<>>
          /\ Has(Last(cmd_list').fields, "F")
          /\ Fld(Last(cmd_list'), "F") = feedrate'
          /\ feedrate' = IF Has(parse_command(line').fields, "F")
                         THEN Get(parse_command(line').fields, "F")
                         ELSE feedrate]_vars

\* an Extrude line without F has just been buffered with the feedrate set by
\* an earlier command
C17_Witness ==
    /\ pc = "run"
    /\ lineno > 0
    /\ is_extrude_cmd(parse_command(line))
    /\ ~Has(parse_command(line).fields, "F")
    /\ in_extrude_block
    /\ Fld(Last(cmd_list), "F") = feedrate
    /\ feedrate > 0

----------------------------------------------------------------------------
(* C18 *)

\* C18: when the command that ends an open Extrude block carries F, the
\* feedrate handed to the LeakCompensator for that block is this F.
C18_FeedrateBeforeClose ==
    [][(ClosesExtrude /\ Has(parse_command(line').fields, "F"))
       => /\ last_call'.cmd_list = cmd_list
          /\ last_call'.feedrate = Get(parse_command(line').fields, "F")
          /\ feedrate' = Get(parse_command(line').fields, "F")]_vars

\* a block has just been closed by a command with F, with a feedrate other
\* than the one stamped on the block's last command
C18_Witness ==
    /\ Len(consumed) >= 2
    /\ is_extrude_cmd(consumed[Len(consumed) - 1])
    /\ Last(consumed) = parse_command(line)
    /\ ~is_extrude_cmd(parse_command(line))
    /\ Has(parse_command(line).fields, "F")
    /\ Returned
    /\ last_call.feedrate = Get(parse_command(line).fields, "F")
    /\ last_call.feedrate # Fld(Last(last_call.cmd_list), "F")

----------------------------------------------------------------------------
(* C19 *)

\* C19: max acceleration changes only in a step that processes an M204, to
\* its S; feedrate changes only in a step whose command carries F, to that
\* F.  Every other step (opening, closing, emitting, other commands, the end
\* of the stream) leaves both unchanged.
C19_MachineStatePersists ==
    [][/\ accel_max' # accel_max
           => /\ ReadsCmd
              /\ parse_command(line').command = M204
              /\ Has(parse_command(line').fields, "S")
              /\ accel_max' = Get(parse_command(line').fields, "S")
       /\ feedrate' # feedrate
           => /\ ReadsCmd
              /\ Has(parse_command(line').fields, "F")
              /\ feedrate' = Get(parse_command(line').fields, "F")]_vars

\* a block was closed and emitted and another one is open, with the
\* acceleration and feedrate set before the first of them
C19_Witness ==
    /\ pc = "run"
    /\ Returned
    /\ in_extrude_block
    /\ ~Has(parse_command(line).fields, "F")
    /\ accel_max = last_call.accel
    /\ accel_max > 0
    /\ feedrate = last_call.feedrate
    /\ feedrate > 0

----------------------------------------------------------------------------
(* C20 *)

\* C20: after any prefix of the input has been processed (the run has not
\* been ended by an exception), in_travel_block and in_extrude_block are not
\* both set, cmd_list is non-empty exactly when one of them is set, and the
\* buffered commands are all of the open block's class: all carry E in an
\* Extrude block, none carries E in a Travel block.
C20_SegmenterState ==
    pc # "failed" =>
        /\ ~(in_travel_block /\ in_extrude_block)
        /\ (cmd_list # <<>>) <=> (in_travel_block \/ in_extrude_block)
        /\ in_extrude_block
               => \A i \in 1..Len(cmd_list) : Has(cmd_list[i].fields, "E")
        /\ in_travel_block
               => \A i \in 1..Len(cmd_list) : ~Has(cmd_list[i].fields, "E")

\* a Travel block opened by the command that closed an Extrude block
C20_Witness ==
    /\ pc = "run"
    /\ Returned
    /\ in_travel_block
    /\ Len(cmd_list) = 1
    /\ Len(consumed) >= 2
    /\ is_extrude_cmd(consumed[Len(consumed) - 1])

====
